---- MODULE Spec2Model ----
(***************************************************************************)
(* Model of the ParseHelper trait (src/src/lib.rs): byte-slice scanning    *)
(* primitives that split a view into a matched prefix and a remainder.     *)
(* Byte slices are sequences of integers; Rust indices are 0-based, so     *)
(* source[..i] is SliceTo(source, i) and source[i..] is SliceFrom.         *)
(***************************************************************************)
EXTENDS Integers, Sequences, FiniteSets, TLC

\* ----- bounds -----------------------------------------------------------
MaxLen == 3
MaxPatLen == 2

\* ----- input domains ----------------------------------------------------
Bytes == {97, 98, 99}                       \* b'a', b'b', b'c'

SeqsUpTo(n) == UNION {[1..k -> Bytes] : k \in 0..n}

\* b"aaaabbbbcccc", the source of the take_smallest / take_largest tests
Example == <<97, 97, 97, 97, 98, 98, 98, 98, 99, 99, 99, 99>>

Sources == SeqsUpTo(MaxLen) \cup {Example}
Patterns == SeqsUpTo(MaxPatLen)
Counts == 0..(MaxLen + 1)
MinSizes == 0..(MaxLen + 1)

\* caller-supplied error values (E: Debug); kept apart from byte views
ErrValues == {<<-1>>, <<-2>>}
\* the unit error () of take_until / take_exact
UnitErr == <<>>

\* ----- caller-supplied predicates F: Fn(&[u8]) -> bool -------------------
Pred(kind, byte, pat, lens) == [kind |-> kind, byte |-> byte, pat |-> pat, lens |-> lens]

\* |s| !s.contains(&b"b"[0])
NoB == Pred("not_contains", 98, <<>>, {})
\* |s| s.starts_with(p)
StartsWithPred(p) == Pred("starts_with", 0, p, {})
\* an arbitrary deterministic predicate, given by the prefix lengths it accepts
LenIn(S) == Pred("len_in", 0, <<>>, S)

Predicates ==
    {NoB}
    \cup {StartsWithPred(p) : p \in Patterns \cup {<<98, 98, 98, 98>>}}
    \cup {LenIn(S) : S \in SUBSET (0..MaxLen)}

\* ----- slices -----------------------------------------------------------
SliceTo(s, i) == SubSeq(s, 1, i)

SliceFromOffByOne(s, i) == SubSeq(s, i + 2, Len(s))

SliceFrom(s, i) == SubSeq(s, i + 1, Len(s))

starts_with(s, p) == Len(p) <= Len(s) /\ SubSeq(s, 1, Len(p)) = p

contains(s, b) == \E k \in 1..Len(s) : s[k] = b

Apply(f, s) ==
    CASE f.kind = "not_contains" -> ~contains(s, f.byte)
      [] f.kind = "starts_with" -> starts_with(s, f.pat)
      [] f.kind = "len_in" -> Len(s) \in f.lens

\* ----- results ----------------------------------------------------------
Ok(a, b) == [tag |-> "Ok", first |-> a, second |-> b, err |-> <<>>]
Err(e) == [tag |-> "Err", first |-> <<>>, second |-> <<>>, err |-> e]
MaybeSome(a, b) == [tag |-> "Some", first |-> a, second |-> b, err |-> <<>>]
MaybeNone(b) == [tag |-> "None", first |-> <<>>, second |-> b, err |-> <<>>]
NoResult == [tag |-> "none", first |-> <<>>, second |-> <<>>, err |-> <<>>]

map_err_keep(r, e) == r

map_err(r, e) == IF r.tag = "Err" THEN Err(e) ELSE r

\* ----- take_until -------------------------------------------------------
\* for i in i..=last { if source[i..].starts_with(pattern) { return Ok(..) } } Err(())
RECURSIVE take_until_loop(_, _, _, _)
take_until_loop(source, pattern, i, last) ==
    IF i > last THEN Err(UnitErr)
    ELSE IF starts_with(SliceFrom(source, i), pattern)
         THEN Ok(SliceTo(source, i), SliceFrom(source, i))
         ELSE take_until_loop(source, pattern, i + 1, last)

take_until_excl(source, pattern) ==
    IF Len(source) < Len(pattern) THEN Err(UnitErr)
    ELSE take_until_loop(source, pattern, 0, Len(source) - Len(pattern) - 1)

take_until(source, pattern) ==
    IF Len(source) < Len(pattern) THEN Err(UnitErr)
    ELSE take_until_loop(source, pattern, 0, Len(source) - Len(pattern))

take_until_err(source, pattern, e) == map_err(take_until(source, pattern), e)

\* ----- take_exact -------------------------------------------------------
take_exact_le(source, cnt) ==
    IF Len(source) <= cnt THEN Err(UnitErr)
    ELSE Ok(SliceTo(source, cnt), SliceFrom(source, cnt))

take_exact(source, cnt) ==
    IF Len(source) < cnt THEN Err(UnitErr)
    ELSE Ok(SliceTo(source, cnt), SliceFrom(source, cnt))

take_exact_err(source, cnt, e) == map_err(take_exact(source, cnt), e)

\* ----- take_expect ------------------------------------------------------
\* for i in i..end { if source[i] != pattern[i] { return Err(source) } } Ok(..)
RECURSIVE take_expect_loop(_, _, _, _)
take_expect_loop(source, pattern, i, end) ==
    IF i >= end THEN Ok(SliceTo(source, Len(pattern)), SliceFrom(source, Len(pattern)))
    ELSE IF source[i + 1] # pattern[i + 1] THEN Err(source)
         ELSE take_expect_loop(source, pattern, i + 1, end)

take_expect_short(source, pattern) ==
    IF Len(source) < Len(pattern) THEN Err(source)
    ELSE take_expect_loop(source, pattern, 0, Len(pattern) - 1)

take_expect(source, pattern) ==
    IF Len(source) < Len(pattern) THEN Err(source)
    ELSE take_expect_loop(source, pattern, 0, Len(pattern))

take_expect_err(source, pattern, e) == map_err(take_expect(source, pattern), e)

\* ----- maybe_expect -----------------------------------------------------
maybe_expect_swapped(source, pattern) ==
    LET r == take_expect(source, pattern)
    IN  IF r.tag = "Ok" THEN MaybeSome(r.second, r.first) ELSE MaybeNone(source)

maybe_expect(source, pattern) ==
    LET r == take_expect(source, pattern)
    IN  IF r.tag = "Ok" THEN MaybeSome(r.first, r.second) ELSE MaybeNone(source)

\* ----- take_smallest_err ------------------------------------------------
\* The scans return the result together with the list of prefix lengths on
\* which the predicate f was called, in call order.
Scan(r, cl) == [res |-> r, calls |-> cl]

\* for i in i..end { if f(&source[..i]) { return Ok(..) } } Err(err)
RECURSIVE smallest_loop(_, _, _, _, _, _)
smallest_loop(source, fn, i, end, e, cl) ==
    IF i >= end THEN Scan(Err(e), cl)
    ELSE IF Apply(fn, SliceTo(source, i))
         THEN Scan(Ok(SliceTo(source, i), SliceFrom(source, i)), Append(cl, i))
         ELSE smallest_loop(source, fn, i + 1, end, e, Append(cl, i))

take_smallest_inclusive(source, fn, m, e) ==
    smallest_loop(source, fn, m, Len(source) + 1, e, <<>>)

take_smallest_skip_first(source, fn, m, e) ==
    smallest_loop(source, fn, m + 1, Len(source), e, <<>>)

take_smallest_err(source, fn, m, e) ==
    smallest_loop(source, fn, m, Len(source), e, <<>>)

\* ----- take_largest_err -------------------------------------------------
\* Option<usize>: <<>> is None, <<i>> is Some(i)
\* for i in i..end { if f(&source[..i]) { largest = Some(i) } }
RECURSIVE largest_loop(_, _, _, _, _, _)
largest_loop(source, fn, i, end, largest, cl) ==
    IF i >= end THEN [largest |-> largest, calls |-> cl]
    ELSE IF Apply(fn, SliceTo(source, i))
         THEN largest_loop(source, fn, i + 1, end, <<i>>, Append(cl, i))
         ELSE largest_loop(source, fn, i + 1, end, largest, Append(cl, i))

\* the same loop with "else if largest.is_some() { break }"
RECURSIVE largest_loop_break(_, _, _, _, _, _)
largest_loop_break(source, fn, i, end, largest, cl) ==
    IF i >= end THEN [largest |-> largest, calls |-> cl]
    ELSE IF Apply(fn, SliceTo(source, i))
         THEN largest_loop_break(source, fn, i + 1, end, <<i>>, Append(cl, i))
         ELSE IF largest # <<>> THEN [largest |-> largest, calls |-> Append(cl, i)]
              ELSE largest_loop_break(source, fn, i + 1, end, largest, Append(cl, i))

\* largest.map(|i| (&source[..i], &source[i..])).ok_or(err)
LargestResult(source, l, e) ==
    Scan(IF l.largest = <<>> THEN Err(e)
         ELSE Ok(SliceTo(source, l.largest[1]), SliceFrom(source, l.largest[1])),
         l.calls)

take_largest_break(source, fn, m, e) ==
    LargestResult(source, largest_loop_break(source, fn, m, Len(source), <<>>, <<>>), e)

take_largest_err(source, fn, m, e) ==
    LargestResult(source, largest_loop(source, fn, m, Len(source), <<>>, <<>>), e)

\* ----- state ------------------------------------------------------------
VARIABLES
    op,        \* the operation called last ("none" before the first call)
    source,    \* self.as_ref() of that call
    pattern,   \* its pattern argument
    count,     \* its count argument
    f,         \* its predicate argument
    min_size,  \* its min_size argument
    err,       \* its caller-supplied error argument
    result,    \* the value it returned
    calls      \* the prefix lengths on which it called the predicate

vars == <<op, source, pattern, count, f, min_size, err, result, calls>>

NoPred == LenIn({})

Init ==
    /\ op = "none"
    /\ source = <<>>
    /\ pattern = <<>>
    /\ count = 0
    /\ f = NoPred
    /\ min_size = 0
    /\ err = UnitErr
    /\ result = NoResult
    /\ calls = <<>>

\* One call: every operation is a pure function of its arguments and keeps
\* nothing between calls, so a behaviour is a single call from the idle state.
Idle == op = "none"

Call(o, s, p, c, fn, m, e, r, cl) ==
    /\ op' = o
    /\ source' = s
    /\ pattern' = p
    /\ count' = c
    /\ f' = fn
    /\ min_size' = m
    /\ err' = e
    /\ result' = r
    /\ calls' = cl

TakeUntil ==
    /\ Idle
    /\ \E s \in Sources, p \in Patterns :
            Call("take_until", s, p, 0, NoPred, 0, UnitErr, take_until(s, p), <<>>)

TakeUntilErr ==
    /\ Idle
    /\ \E s \in Sources, p \in Patterns, e \in ErrValues :
            Call("take_until_err", s, p, 0, NoPred, 0, e, take_until_err(s, p, e), <<>>)

TakeExact ==
    /\ Idle
    /\ \E s \in Sources, c \in Counts :
            Call("take_exact", s, <<>>, c, NoPred, 0, UnitErr, take_exact(s, c), <<>>)

TakeExactErr ==
    /\ Idle
    /\ \E s \in Sources, c \in Counts, e \in ErrValues :
            Call("take_exact_err", s, <<>>, c, NoPred, 0, e, take_exact_err(s, c, e), <<>>)

TakeExpect ==
    /\ Idle
    /\ \E s \in Sources, p \in Patterns :
            Call("take_expect", s, p, 0, NoPred, 0, UnitErr, take_expect(s, p), <<>>)

TakeExpectErr ==
    /\ Idle
    /\ \E s \in Sources, p \in Patterns, e \in ErrValues :
            Call("take_expect_err", s, p, 0, NoPred, 0, e, take_expect_err(s, p, e), <<>>)

MaybeExpect ==
    /\ Idle
    /\ \E s \in Sources, p \in Patterns :
            Call("maybe_expect", s, p, 0, NoPred, 0, UnitErr, maybe_expect(s, p), <<>>)

TakeSmallestErr ==
    /\ Idle
    /\ \E s \in Sources, fn \in Predicates, m \in MinSizes, e \in ErrValues :
            LET r == take_smallest_err(s, fn, m, e)
            IN  Call("take_smallest_err", s, <<>>, 0, fn, m, e, r.res, r.calls)

TakeLargestErr ==
    /\ Idle
    /\ \E s \in Sources, fn \in Predicates, m \in MinSizes, e \in ErrValues :
            LET r == take_largest_err(s, fn, m, e)
            IN  Call("take_largest_err", s, <<>>, 0, fn, m, e, r.res, r.calls)

Next ==
    \/ TakeUntil
    \/ TakeUntilErr
    \/ TakeExact
    \/ TakeExactErr
    \/ TakeExpect
    \/ TakeExpectErr
    \/ MaybeExpect
    \/ TakeSmallestErr
    \/ TakeLargestErr

Spec == Init /\ [][Next]_vars

\* ----- properties -------------------------------------------------------
Succeeded == result.tag \in {"Ok", "Some"}

\* source[..i] and source[i..] written out, independently of the slice helpers
PrefixOf(s, i) == [k \in 1..i |-> s[k]]
SuffixOf(s, i) == [k \in 1..(Len(s) - i) |-> s[i + k]]

\* view[i..] starts with pat, byte by byte
OccursAt(s, pat, i) ==
    /\ i + Len(pat) <= Len(s)
    /\ \A k \in 1..Len(pat) : s[i + k] = pat[k]

Min(S) == CHOOSE x \in S : \A y \in S : x <= y
Max(S) == CHOOSE x \in S : \A y \in S : x >= y

\* the prefix lengths of the scan range on which the predicate holds
Satisfying == {i \in min_size..(Len(source) - 1) : Apply(f, PrefixOf(source, i))}

\* C1: whenever an operation succeeds, first followed by second is the
\* original view, and the two lengths add up to the length of the view.
C1_SplitCompleteness ==
    Succeeded =>
        /\ result.first \o result.second = source
        /\ Len(result.first) + Len(result.second) = Len(source)

C1_Witness ==
    /\ op = "take_until"
    /\ result.tag = "Ok"
    /\ result.first # <<>>
    /\ Len(result.second) > Len(pattern)

\* C2: take_until with a non-empty pattern succeeds iff the pattern occurs
\* at some index of [0, len - pattern.len]; it then splits at the smallest
\* such index, the second view beginning with the pattern; it fails when
\* the pattern is longer than the view or does not occur.
C2_TakeUntil ==
    (op = "take_until" /\ pattern # <<>>) =>
        LET Occ == {i \in 0..(Len(source) - Len(pattern)) : OccursAt(source, pattern, i)}
        IN  /\ (result.tag = "Ok") <=> (Occ # {})
            /\ Occ # {} =>
                 /\ result = Ok(PrefixOf(source, Min(Occ)), SuffixOf(source, Min(Occ)))
                 /\ OccursAt(result.second, pattern, 0)
            /\ Occ = {} => result = Err(UnitErr)
            /\ Len(pattern) > Len(source) => result = Err(UnitErr)

C2_Witness ==
    /\ op = "take_until"
    /\ pattern # <<>>
    /\ result.tag = "Ok"
    /\ Len(result.first) = Len(source) - Len(pattern)
    /\ result.first # <<>>

\* C3: take_exact succeeds iff count <= len; the head is then view[..count]
\* of length count and the tail view[count..]; count 0 gives an empty head
\* and the whole view as tail, count = len the whole view and an empty tail.
C3_TakeExact ==
    op = "take_exact" =>
        /\ (result.tag = "Ok") <=> (count <= Len(source))
        /\ result.tag = "Ok" =>
             /\ Len(result.first) = count
             /\ result.first = PrefixOf(source, count)
             /\ result.second = SuffixOf(source, count)
        /\ count = 0 => result = Ok(<<>>, source)
        /\ count = Len(source) => result = Ok(source, <<>>)
        /\ count > Len(source) => result = Err(UnitErr)

C3_Witness ==
    /\ op = "take_exact"
    /\ count = Len(source)
    /\ count > 0
    /\ result.tag = "Ok"

\* C4: take_expect succeeds exactly when the view begins with the pattern
\* byte for byte; matched is then equal to the pattern and the tail is
\* view[pattern.len..]; on every failure the error is the original view.
C4_TakeExpect ==
    op = "take_expect" =>
        /\ (result.tag = "Ok") <=> OccursAt(source, pattern, 0)
        /\ OccursAt(source, pattern, 0) =>
             result = Ok(pattern, SuffixOf(source, Len(pattern)))
        /\ ~OccursAt(source, pattern, 0) => result = Err(source)

C4_Witness ==
    /\ op = "take_expect"
    /\ result.tag = "Err"
    /\ Len(pattern) = 2
    /\ Len(source) > 2
    /\ source[1] = pattern[1]
    /\ result.err = source

\* C5: maybe_expect returns (Some(matched), tail) with the payload of
\* take_expect when take_expect succeeds and (None, original view)
\* otherwise; there is no third outcome.
C5_MaybeExpect ==
    op = "maybe_expect" =>
        /\ result.tag \in {"Some", "None"}
        /\ (result.tag = "Some") <=> OccursAt(source, pattern, 0)
        /\ result.tag = "Some" =>
             /\ take_expect(source, pattern).tag = "Ok"
             /\ result.first = take_expect(source, pattern).first
             /\ result.second = take_expect(source, pattern).second
             /\ result.first = pattern
        /\ result.tag = "None" =>
             /\ take_expect(source, pattern).tag = "Err"
             /\ result.second = source

C5_Witness ==
    /\ op = "maybe_expect"
    /\ result.tag = "Some"
    /\ result.first # <<>>
    /\ result.second # <<>>
    /\ result.first # result.second

C7_TakeLargest ==
    op = "take_largest_err" =>
        /\ Satisfying = {} => result = Err(err)
        /\ Satisfying # {} =>
             result = Ok(PrefixOf(source, Max(Satisfying)), SuffixOf(source, Max(Satisfying)))
        /\ Len(calls) = (IF Len(source) > min_size THEN Len(source) - min_size ELSE 0)
        /\ \A k \in 1..Len(calls) : calls[k] = min_size + k - 1
        /\ (result.tag = "Err") <=>
             (take_smallest_err(source, f, min_size, err).res.tag = "Err")

C7_Witness ==
    /\ op = "take_largest_err"
    /\ result.tag = "Ok"
    /\ \E i, j \in min_size..Len(result.first) :
         /\ i < j
         /\ i \in Satisfying
         /\ j \notin Satisfying
    /\ \E j \in (Len(result.first) + 1)..(Len(source) - 1) : j \notin Satisfying

\* C8: on "aaaabbbbcccc" with min_size 0 and the predicate "no byte b in
\* the prefix", take_smallest_err splits at index 1: ("a", "aaabbbbcccc").
C8_SmallestExample ==
    (op = "take_smallest_err" /\ source = Example /\ f = NoB /\ min_size = 0) =>
        result = Ok(<<97>>, SuffixOf(Example, 1))

\* the predicate holds, within the scan range, exactly on [lo, hi)
Contiguous(lo, hi) ==
    /\ min_size <= lo
    /\ lo < hi
    /\ hi <= Len(source)
    /\ Satisfying = lo..(hi - 1)

Base ==
    CASE op = "take_until_err" -> take_until(source, pattern)
      [] op = "take_exact_err" -> take_exact(source, count)
      [] op = "take_expect_err" -> take_expect(source, pattern)

\* C10: take_until_err, take_exact_err and take_expect_err succeed exactly
\* when their base operation succeeds, with the same payload, and
\* otherwise return Err with exactly the caller's error value.
C10_ErrVariants ==
    op \in {"take_until_err", "take_exact_err", "take_expect_err"} =>
        /\ (result.tag = "Ok") <=> (Base.tag = "Ok")
        /\ Base.tag = "Ok" =>
             /\ result.first = Base.first
             /\ result.second = Base.second
        /\ Base.tag = "Err" => result = Err(err)
        /\ err \in ErrValues

C10_Witness ==
    /\ op = "take_expect_err"
    /\ source # <<>>
    /\ Base = Err(source)
    /\ result = Err(err)
    /\ err # source

====
